---- MODULE Spec2Model ----
(***************************************************************************)
(* Model of micromdm-webhook.go: a webhook receiver that keeps an          *)
(* in-memory registry of devices (Server.Devices) and posts an             *)
(* "InstalledApplicationList" command to the MDM server after every        *)
(* TokenUpdate.                                                            *)
(*                                                                         *)
(* net/http runs handleWebhook in one goroutine per request, so a handler  *)
(* is modelled as the sequence of its accesses to shared state: the map    *)
(* read, the map write and the outbound POST are separate steps of a       *)
(* request slot; the code between two accesses touches only locals and is  *)
(* part of the step that follows it.                                       *)
(***************************************************************************)
EXTENDS Integers, Sequences, FiniteSets, TLC

(* ---- bounds ----------------------------------------------------------- *)

\* Number of requests the server receives in a run.
MaxEvents == 2

\* Longest raw payload of an acknowledge event, in text fragments.
MaxBlobLen == 3

\* Device identifiers that occur in events.
UDIDs == {"A", "B"}

\* Requests that can be in flight at the same time (one goroutine each).
\* Goroutines are anonymous: a new request takes the first free slot.
Procs == {1, 2}

\* Text fragments raw payloads are made of.  "InstalledApplicationList" is
\* the two fragments in this order; a capital I occurs only at the start of
\* the first one, so a payload contains the marker text exactly when its
\* fragment sequence contains the marker's fragment sequence.
Alphabet == {"Installed", "ApplicationList"}

(* ---- types ------------------------------------------------------------ *)

\* mdm.AuthenticateTopic, mdm.TokenUpdateTopic, mdm.ConnectTopic,
\* mdm.CheckoutTopic as switched on in handleWebhook.
AuthenticateTopic == "mdm.Authenticate"
TokenUpdateTopic == "mdm.TokenUpdate"
ConnectTopic == "mdm.Connect"
CheckoutTopic == "mdm.CheckOut"

\* A topic that is none of the four.
OtherTopic == "mdm.Other"

Topics == {AuthenticateTopic, TokenUpdateTopic, ConnectTopic, CheckoutTopic, OtherTopic}

\* http.StatusBadRequest
StatusBadRequest == 400

\* The request type handleTokenUpdate passes to sendCommandToDevice.
InstalledApplicationList == "InstalledApplicationList"

\* The text handleConnect looks for, as fragments.
Marker == <<"Installed", "ApplicationList">>

\* A nil pointer is the empty sequence, a non-nil one a sequence of one value.
Nil == <<>>

SeqsUpTo(S, n) == UNION {[1..k -> S] : k \in 0..n}

Blobs == SeqsUpTo(Alphabet, MaxBlobLen)

\* Device{}: the zero value a map read yields for an absent key.
ZeroDevice == [UDID |-> "", Enrolled |-> FALSE]

Device == [UDID : UDIDs \cup {""}, Enrolled : BOOLEAN]

\* Command, as encoded into the POST body.
Command(udid, requestType) == [udid |-> udid, request_type |-> requestType]

CheckinEvents == {Nil} \cup {<<[UDID |-> u]>> : u \in UDIDs}

AcknowledgeEvents == {Nil} \cup {<<[UDID |-> u, RawPayload |-> b]>> : u \in UDIDs, b \in Blobs}

\* webhook.Event, reduced to the fields the program reads.  Only
\* handleConnect reads RawPayload, so the payloads vary over all of Blobs in
\* Connect events and events of the other topics carry the marker itself.
Events == {e \in [Topic : Topics, CheckinEvent : CheckinEvents, AcknowledgeEvent : AcknowledgeEvents] :
             e.Topic # ConnectTopic /\ e.AcknowledgeEvent # Nil => e.AcknowledgeEvent[1].RawPayload = Marker}

ZeroEvent == [Topic |-> "", CheckinEvent |-> Nil, AcknowledgeEvent |-> Nil]

\* Request bodies: one that json.Decode rejects, and the encodings of events.
Bodies == {[malformed |-> TRUE, event |-> ZeroEvent]} \cup {[malformed |-> FALSE, event |-> e] : e \in Events}

\* Outcomes of client.Do: a 2xx response, a 401 response (err is nil for any
\* response, whatever its status), or an error of the transport.
DoOutcomes == {"ok", "unauthorized", "transport_error"}

(* ---- state ------------------------------------------------------------ *)

VARIABLES
  Devices,      \* Server.Devices: the registry, a map from UDID to Device
  alive,        \* the process runs (FALSE after log.Fatal)
  pc,           \* per request slot: position of its goroutine
  udid,         \* per request slot: event.CheckinEvent.UDID of the handler
  d,            \* per request slot: the handler's local d
  exists,       \* per request slot: handleAuthenticate's local exists
  commands,     \* the POSTs made to <server-url>/v1/commands, in order
  delivery,     \* outcome of the last client.Do ("none" before the first)
  out,          \* what the last step received, answered and logged
  tokenUpdates, \* per UDID: TokenUpdate events with a checkin payload taken in
  referenced,   \* UDIDs of the payloads the four handlers were given
  checkedIn,    \* UDIDs of the checkin payloads the three checkin handlers were given
  checkins,     \* per UDID: events with a checkin payload the three handlers were given
  lastTopic,    \* per UDID: topic of the last of them ("" before the first)
  newReports,   \* per UDID: "enrolling new device" lines printed
  lastWriter,   \* per UDID: the slot whose handler wrote the record last (0: none)
  nEvents,      \* requests received so far
  config        \* Server.MDMServerURL and Server.MDMAPIKey

vars == <<Devices, alive, pc, udid, d, exists, commands, delivery, out, tokenUpdates, referenced, checkedIn, checkins, lastTopic, newReports, lastWriter, nEvents, config>>

(* ---- pure functions --------------------------------------------------- *)

\* Mutant: strings.HasPrefix in place of strings.Contains.
Contains_PrefixOnly(s, sub) == Len(sub) <= Len(s) /\ SubSeq(s, 1, Len(sub)) = sub

\* strings.Contains(s, sub)
Contains(s, sub) == \E i \in 0..(Len(s) - Len(sub)) : SubSeq(s, i + 1, i + Len(sub)) = sub

\* s.Devices[k]: the stored value, or the zero value when k is absent.
MapGet(m, k) == IF k \in DOMAIN m THEN m[k] ELSE ZeroDevice

\* Mutant: the write updates a stored record and creates none.
MapPut_NoInsert(m, k, v) == [x \in DOMAIN m |-> IF x = k THEN v ELSE m[x]]

\* Mutant: the map is replaced by one that holds the written record only.
MapPut_Replace(m, k, v) == [x \in {k} |-> v]

\* Mutant: the written record is stored under every key of the map.
MapPut_All(m, k, v) == [x \in (DOMAIN m) \cup {k} |-> v]

\* s.Devices[k] = v
MapPut(m, k, v) == [x \in (DOMAIN m) \cup {k} |-> IF x = k THEN v ELSE m[x]]

\* The -server-url flag after strings.TrimRight(url, "/") and the -api-token
\* flag: both are required to be non-empty before the server is built.
ServerURL == "https://mdm.example.org"
APIKey == "api-token"

\* What a step reports: the slot, the step, the request it decoded (Nil if
\* none), the HTTP status (0: no answer yet, 200: the handler returned
\* without writing one, 400: http.Error) and the lines it logged.
Out(p, step, request, status, log) == [proc |-> p, step |-> step, request |-> request, status |-> status, log |-> log]

Init ==
  /\ Devices = [k \in {} |-> ZeroDevice]
  /\ alive = TRUE
  /\ pc = [p \in Procs |-> "idle"]
  /\ udid = [p \in Procs |-> ""]
  /\ d = [p \in Procs |-> ZeroDevice]
  /\ exists = [p \in Procs |-> FALSE]
  /\ commands = <<>>
  /\ delivery = "none"
  /\ out = Out(0, "init", Nil, 0, <<>>)
  /\ tokenUpdates = [u \in UDIDs |-> 0]
  /\ referenced = {}
  /\ checkedIn = {}
  /\ checkins = [u \in UDIDs |-> 0]
  /\ lastTopic = [u \in UDIDs |-> ""]
  /\ newReports = [u \in UDIDs |-> 0]
  /\ lastWriter = [u \in UDIDs |-> 0]
  /\ nEvents = 0
  /\ config = [MDMServerURL |-> ServerURL, MDMAPIKey |-> APIKey]

(* ---- handleWebhook and the handlers' entry checks --------------------- *)

\* Mutant: the default case falls into the CheckOut handler.
Route_DefaultHandled(topic) ==
  CASE topic = AuthenticateTopic -> "handleAuthenticate"
    [] topic = TokenUpdateTopic -> "handleTokenUpdate"
    [] topic = ConnectTopic -> "handleConnect"
    [] OTHER -> "handleCheckOut"

\* The handler the switch of handleWebhook selects for a topic.
Route(topic) ==
  CASE topic = AuthenticateTopic -> "handleAuthenticate"
    [] topic = TokenUpdateTopic -> "handleTokenUpdate"
    [] topic = ConnectTopic -> "handleConnect"
    [] topic = CheckoutTopic -> "handleCheckOut"
    [] OTHER -> "default"

\* Mutant: a checkin handler falls back on the acknowledge payload.
RequiredPayload_Fallback(handler, event) ==
  IF handler = "handleConnect" \/ event.CheckinEvent = Nil THEN event.AcknowledgeEvent ELSE event.CheckinEvent

\* The payload a handler requires: Nil stands for a nil pointer.
RequiredPayload(handler, event) ==
  IF handler = "handleConnect" THEN event.AcknowledgeEvent ELSE event.CheckinEvent

\* The error a handler logs and answers when its payload is nil.
MissingPayloadError(handler) ==
  IF handler = "handleConnect" THEN "The event has no AcknowledgeEvent" ELSE "The event has no CheckinEvent"

\* The logrus.Infof line at the top of a handler.  %+v prints the event's
\* payload pointers as addresses, so the line carries no payload content.
InfoLine(handler) == <<"info", handler>>

\* handleConnect after its nil check: the payload is printed when it
\* contains the marker.
ConnectLog(xml) == IF Contains(xml, Marker) THEN <<(<<"println">> \o xml)>> ELSE <<>>

\* Mutant: handleAuthenticate runs the TokenUpdate handler's body.
FirstStep_AuthenticateSends(handler) ==
  CASE handler = "handleAuthenticate" -> "tu_lookup"
    [] handler = "handleTokenUpdate" -> "tu_lookup"
    [] handler = "handleCheckOut" -> "co_lookup"
    [] OTHER -> "idle"

\* Mutant: handleConnect looks the device up and writes it back.
FirstStep_ConnectStores(handler) ==
  CASE handler = "handleAuthenticate" -> "auth_lookup"
    [] handler = "handleTokenUpdate" -> "tu_lookup"
    [] handler = "handleCheckOut" -> "co_lookup"
    [] OTHER -> "co_lookup"

\* Where a handler that got its payload continues: at its read of the
\* registry, or nowhere (handleConnect returns without touching it).
FirstStep(handler) ==
  CASE handler = "handleAuthenticate" -> "auth_lookup"
    [] handler = "handleTokenUpdate" -> "tu_lookup"
    [] handler = "handleCheckOut" -> "co_lookup"
    [] OTHER -> "idle"

\* The bookkeeping of a received request: which identifiers the handlers
\* were given, in a checkin payload or in an acknowledge payload.
Received(body) ==
  LET event == body.event
      checkin == ~body.malformed /\ event.CheckinEvent # Nil
                   /\ event.Topic \in {AuthenticateTopic, TokenUpdateTopic, CheckoutTopic}
      acknowledge == ~body.malformed /\ event.AcknowledgeEvent # Nil /\ event.Topic = ConnectTopic
  IN  /\ nEvents' = nEvents + 1
      /\ checkedIn' = checkedIn \cup (IF checkin THEN {event.CheckinEvent[1].UDID} ELSE {})
      /\ referenced' = referenced \cup (IF checkin THEN {event.CheckinEvent[1].UDID} ELSE {})
                                  \cup (IF acknowledge THEN {event.AcknowledgeEvent[1].UDID} ELSE {})
      /\ checkins' = IF checkin THEN [checkins EXCEPT ![event.CheckinEvent[1].UDID] = @ + 1] ELSE checkins
      /\ lastTopic' = IF checkin THEN [lastTopic EXCEPT ![event.CheckinEvent[1].UDID] = event.Topic] ELSE lastTopic
      /\ tokenUpdates' = IF checkin /\ event.Topic = TokenUpdateTopic
                         THEN [tokenUpdates EXCEPT ![event.CheckinEvent[1].UDID] = @ + 1]
                         ELSE tokenUpdates

\* Mutant: the error of Decode is not looked at.
DecodeFails_Ignored(body) == FALSE

\* err != nil after json.NewDecoder(r.Body).Decode(&event)
DecodeFails(body) == body.malformed

\* The request is answered in the step that received it.
Answer(p, body, status, log) ==
  /\ out' = Out(p, "handleWebhook", <<body>>, status, log)
  /\ UNCHANGED <<Devices, alive, pc, udid, d, exists, commands, delivery, newReports, lastWriter, config>>

\* handleWebhook up to the handler's first access to the registry.
HandleWebhook(p, body) ==
  /\ alive
  /\ pc[p] = "idle"
  /\ \A q \in Procs : q < p => pc[q] # "idle"
  /\ nEvents < MaxEvents
  /\ Received(body)
  /\ IF DecodeFails(body)
     THEN Answer(p, body, StatusBadRequest, << <<"error", "decode JSON">> >>)
     ELSE LET event == body.event
              handler == Route(event.Topic)
              payload == RequiredPayload(handler, event)
              next == FirstStep(handler)
          IN  IF handler = "default"
              THEN Answer(p, body, 200, << <<"warning", event.Topic>> >>)
              ELSE IF payload = Nil
              THEN Answer(p, body, StatusBadRequest, <<InfoLine(handler), <<"error", MissingPayloadError(handler)>> >>)
              ELSE IF next = "idle"
              THEN Answer(p, body, 200, <<InfoLine(handler)>> \o ConnectLog(payload[1].RawPayload))
              ELSE /\ pc' = [pc EXCEPT ![p] = next]
                   /\ udid' = [udid EXCEPT ![p] = payload[1].UDID]
                   /\ out' = Out(p, "handleWebhook", <<body>>, 0, <<InfoLine(handler)>>)
                   /\ UNCHANGED <<Devices, alive, d, exists, commands, delivery, newReports, lastWriter, config>>

(* ---- the handlers' steps on the registry ------------------------------ *)

\* The handler returns: its goroutine and locals are gone, net/http answers 200.
Return(p, step, log) ==
  /\ pc' = [pc EXCEPT ![p] = "idle"]
  /\ udid' = [udid EXCEPT ![p] = ""]
  /\ d' = [d EXCEPT ![p] = ZeroDevice]
  /\ exists' = [exists EXCEPT ![p] = FALSE]
  /\ out' = Out(p, step, Nil, 200, log)

\* d, exists := s.Devices[udid]  /  d := s.Devices[udid]
Lookup(p, from, to) ==
  /\ alive
  /\ pc[p] = from
  /\ d' = [d EXCEPT ![p] = MapGet(Devices, udid[p])]
  /\ exists' = [exists EXCEPT ![p] = (from = "auth_lookup" /\ udid[p] \in DOMAIN Devices)]
  /\ pc' = [pc EXCEPT ![p] = to]
  /\ out' = Out(p, from, Nil, 0, <<>>)
  /\ UNCHANGED <<Devices, alive, udid, commands, delivery, tokenUpdates, referenced, checkedIn, checkins, lastTopic, newReports, lastWriter, nEvents, config>>

\* Mutant: the enrollment flag is left as it was read.
AuthenticateRecord_KeepsFlag(dev, u) == [dev EXCEPT !.UDID = u]

\* d.UDID = udid; d.Enrolled = false
AuthenticateRecord(dev, u) == [dev EXCEPT !.UDID = u, !.Enrolled = FALSE]

\* Mutant: the flag is set to false, as in the other two handlers.
TokenUpdateRecord_Unenrolled(dev, u) == [dev EXCEPT !.UDID = u, !.Enrolled = FALSE]

\* Mutant: d.UDID is not set, so a new record keeps the zero UDID.
TokenUpdateRecord_NoUDID(dev, u) == [dev EXCEPT !.Enrolled = TRUE]

\* d.UDID = udid; d.Enrolled = true
TokenUpdateRecord(dev, u) == [dev EXCEPT !.UDID = u, !.Enrolled = TRUE]

\* Mutant: the enrollment flag is left as it was read.
CheckOutRecord_KeepsFlag(dev, u) == [dev EXCEPT !.UDID = u]

\* d.UDID = udid; d.Enrolled = false
CheckOutRecord(dev, u) == [dev EXCEPT !.UDID = u, !.Enrolled = FALSE]

\* The line handleAuthenticate prints after the write.
AuthenticateLog(existed, dev) ==
  IF existed THEN <<"println", "re-enrolling device", dev.UDID>> ELSE <<"println", "enrolling new device", dev.UDID>>

AuthenticateLookup(p) == Lookup(p, "auth_lookup", "auth_store")

AuthenticateStore(p) ==
  /\ alive
  /\ pc[p] = "auth_store"
  /\ LET dev == AuthenticateRecord(d[p], udid[p])
     IN  /\ Devices' = MapPut(Devices, udid[p], dev)
         /\ Return(p, "auth_store", <<AuthenticateLog(exists[p], dev)>>)
  /\ newReports' = IF exists[p] THEN newReports ELSE [newReports EXCEPT ![udid[p]] = @ + 1]
  /\ lastWriter' = [lastWriter EXCEPT ![udid[p]] = p]
  /\ UNCHANGED <<alive, commands, delivery, tokenUpdates, referenced, checkedIn, checkins, lastTopic, nEvents, config>>

TokenUpdateLookup(p) == Lookup(p, "tu_lookup", "tu_store")

TokenUpdateStore(p) ==
  /\ alive
  /\ pc[p] = "tu_store"
  /\ LET dev == TokenUpdateRecord(d[p], udid[p])
     IN  /\ Devices' = MapPut(Devices, udid[p], dev)
         /\ d' = [d EXCEPT ![p] = dev]
  /\ pc' = [pc EXCEPT ![p] = "tu_send"]
  /\ out' = Out(p, "tu_store", Nil, 0, <<>>)
  /\ lastWriter' = [lastWriter EXCEPT ![udid[p]] = p]
  /\ UNCHANGED <<alive, udid, exists, commands, delivery, tokenUpdates, referenced, checkedIn, checkins, lastTopic, newReports, nEvents, config>>

CheckOutLookup(p) == Lookup(p, "co_lookup", "co_store")

CheckOutStore(p) ==
  /\ alive
  /\ pc[p] = "co_store"
  /\ Devices' = MapPut(Devices, udid[p], CheckOutRecord(d[p], udid[p]))
  /\ Return(p, "co_store", <<>>)
  /\ lastWriter' = [lastWriter EXCEPT ![udid[p]] = p]
  /\ UNCHANGED <<alive, commands, delivery, tokenUpdates, referenced, checkedIn, checkins, lastTopic, newReports, nEvents, config>>

(* ---- sendCommandToDevice ---------------------------------------------- *)

\* err != nil after client.Do: only an error of the transport; a response
\* is discarded unread, whatever its status.
DoFails(outcome) == outcome = "transport_error"

\* handleTokenUpdate's call of sendCommandToDevice(d, "InstalledApplicationList"):
\* the command is posted; log.Fatal ends the process when client.Do fails,
\* otherwise the handler returns.  The configured server URL is taken to be
\* well formed, so that http.NewRequest, whose error is overwritten
\* unchecked, returns a request.
TokenUpdateSend(p) ==
  /\ alive
  /\ pc[p] = "tu_send"
  /\ \E outcome \in DoOutcomes :
       /\ commands' = Append(commands, Command(d[p].UDID, InstalledApplicationList))
       /\ delivery' = outcome
       /\ IF DoFails(outcome)
          THEN /\ alive' = FALSE
               /\ pc' = [pc EXCEPT ![p] = "fatal"]
               /\ out' = Out(p, "tu_send", Nil, 0, << <<"error", "send command to device">>, <<"fatal">> >>)
               /\ UNCHANGED <<udid, d, exists>>
          ELSE /\ alive' = TRUE
               /\ Return(p, "tu_send", <<>>)
  /\ UNCHANGED <<Devices, tokenUpdates, referenced, checkedIn, checkins, lastTopic, newReports, lastWriter, nEvents, config>>

(* ---- unsynchronised access to the map --------------------------------- *)

\* Positions at which the next statement of a handler reads s.Devices.
MapReads == {"auth_lookup", "tu_lookup", "co_lookup"}

\* Positions at which the next statement of a handler writes s.Devices.
MapWrites == {"auth_store", "tu_store", "co_store"}

\* Two goroutines are at an access of s.Devices, one of them a write, and
\* no lock orders them: a data race on a Go map, whatever the keys.  The
\* accesses either fall one after the other (the handlers' own steps) or
\* overlap, and then the runtime may end the process with "fatal error:
\* concurrent map writes" (or "concurrent map read and map write").
ConcurrentMapFault(p, q) ==
  /\ alive
  /\ p # q
  /\ pc[p] \in MapWrites
  /\ pc[q] \in MapReads \cup MapWrites
  /\ alive' = FALSE
  /\ out' = Out(p, "fault", Nil, 0, << <<"fatal error", "concurrent map access">> >>)
  /\ UNCHANGED <<Devices, pc, udid, d, exists, commands, delivery, tokenUpdates, referenced, checkedIn, checkins, lastTopic, newReports, lastWriter, nEvents, config>>

(* ---- specification ---------------------------------------------------- *)

Next ==
  \/ \E p \in Procs, body \in Bodies : HandleWebhook(p, body)
  \/ \E p \in Procs : AuthenticateLookup(p)
  \/ \E p \in Procs : AuthenticateStore(p)
  \/ \E p \in Procs : TokenUpdateLookup(p)
  \/ \E p \in Procs : TokenUpdateStore(p)
  \/ \E p \in Procs : TokenUpdateSend(p)
  \/ \E p \in Procs : CheckOutLookup(p)
  \/ \E p \in Procs : CheckOutStore(p)
  \/ \E p \in Procs, q \in Procs : ConcurrentMapFault(p, q)

Spec == Init /\ [][Next]_vars

\* No request is in flight.
Quiescent == \A p \in Procs : pc[p] = "idle"

\* The requests handled one at a time: a request is received when the one
\* before it has been answered.
SeqNext ==
  \/ \E body \in Bodies : Quiescent /\ HandleWebhook(1, body)
  \/ AuthenticateLookup(1)
  \/ AuthenticateStore(1)
  \/ TokenUpdateLookup(1)
  \/ TokenUpdateStore(1)
  \/ TokenUpdateSend(1)
  \/ CheckOutLookup(1)
  \/ CheckOutStore(1)

SeqSpec == Init /\ [][SeqNext]_vars

TypeOK ==
  /\ DOMAIN Devices \subseteq UDIDs
  /\ \A k \in DOMAIN Devices : Devices[k] \in Device
  /\ alive \in BOOLEAN
  /\ pc \in [Procs -> {"idle", "auth_lookup", "auth_store", "tu_lookup", "tu_store", "tu_send", "co_lookup", "co_store", "fatal"}]
  /\ udid \in [Procs -> UDIDs \cup {""}]
  /\ d \in [Procs -> Device]
  /\ exists \in [Procs -> BOOLEAN]
  /\ delivery \in DoOutcomes \cup {"none"}
  /\ nEvents \in 0..MaxEvents
  /\ config = [MDMServerURL |-> ServerURL, MDMAPIKey |-> APIKey]

(* ---- vocabulary of the properties ------------------------------------- *)

\* The step taken was a step of slot p: every step of a handler moves its
\* slot, except a request that is answered by the step that received it.
Moved(p) == pc'[p] # pc[p]

\* The step reported by o received a well-formed request.
Decoded(o) == o.step = "handleWebhook" /\ o.request # Nil /\ ~o.request[1].malformed

\* The event of the request that the step reported by o received.
EventOf(o) == o.request[1].event

\* The step reported by o received an event of this topic whose checkin
\* payload carries u.
CheckinReceived(o, topic, u) ==
  Decoded(o) /\ EventOf(o).Topic = topic /\ EventOf(o).CheckinEvent = <<[UDID |-> u]>>

\* The event lacks the payload its topic requires.
LacksRequiredPayload(e) ==
  \/ e.Topic \in {AuthenticateTopic, TokenUpdateTopic, CheckoutTopic} /\ e.CheckinEvent = Nil
  \/ e.Topic = ConnectTopic /\ e.AcknowledgeEvent = Nil

\* The registry holds a record for u with this enrollment flag.
Registered(reg, u, enrolled) == u \in DOMAIN reg /\ reg[u] = [UDID |-> u, Enrolled |-> enrolled]

\* Neither the registry nor the outbound commands change.
NoEffect == Devices' = Devices /\ commands' = commands

(* ---- properties ------------------------------------------------------- *)

C1_Steps ==
  \A p \in Procs, u \in UDIDs :
    /\ CheckinReceived(out', TokenUpdateTopic, u) /\ out'.proc = p
         => pc'[p] = "tu_lookup" /\ udid'[p] = u /\ NoEffect
    /\ pc[p] = "tu_lookup" /\ udid[p] = u /\ Moved(p)
         => pc'[p] = "tu_store" /\ udid'[p] = u /\ NoEffect
    /\ pc[p] = "tu_store" /\ udid[p] = u /\ Moved(p)
         => pc'[p] = "tu_send" /\ udid'[p] = u /\ Registered(Devices', u, TRUE) /\ commands' = commands
    /\ pc[p] = "tu_send" /\ udid[p] = u /\ Moved(p)
         => /\ pc'[p] \in {"idle", "fatal"}
            /\ Devices' = Devices
            /\ commands' = Append(commands, [udid |-> u, request_type |-> "InstalledApplicationList"])

\* C1: a TokenUpdate event with a checkin payload for u runs the handler's
\* steps in order: nothing changes before the write, the write leaves a
\* record for u with enrolled = true whatever the registry held, and the
\* one step that follows posts exactly one command, {u,
\* "InstalledApplicationList"}, after which the handler is over.
C1_TokenUpdateEnrollsAndSendsOnce == [][C1_Steps]_vars

\* A second TokenUpdate for an enrolled device has been handled to its end.
C1_Witness ==
  /\ out.step = "tu_send" /\ out.status = 200
  /\ Len(commands) = 2 /\ commands[1].udid = commands[2].udid
  /\ Registered(Devices, commands[1].udid, TRUE)

C2_Steps ==
  \A p \in Procs, u \in UDIDs :
    /\ CheckinReceived(out', AuthenticateTopic, u) /\ out'.proc = p
         => pc'[p] = "auth_lookup" /\ udid'[p] = u /\ NoEffect
    /\ pc[p] = "auth_lookup" /\ udid[p] = u /\ Moved(p)
         => pc'[p] = "auth_store" /\ udid'[p] = u /\ NoEffect
    /\ pc[p] = "auth_store" /\ udid[p] = u /\ Moved(p)
         => pc'[p] = "idle" /\ Registered(Devices', u, FALSE) /\ commands' = commands

\* C2: an Authenticate event with a checkin payload for u leaves a record
\* for u with enrolled = false, whether or not u had a record and whatever
\* its flag was, and no step of the handler posts a command.
C2_AuthenticateUnenrolls == [][C2_Steps]_vars

\* A device never seen before has been authenticated.
C2_Witness ==
  \E u \in UDIDs :
    /\ out.step = "auth_store"
    /\ out.log = << <<"println", "enrolling new device", u>> >>
    /\ Registered(Devices, u, FALSE)
    /\ commands = <<>>

C3_Steps ==
  \A p \in Procs, u \in UDIDs :
    /\ CheckinReceived(out', CheckoutTopic, u) /\ out'.proc = p
         => pc'[p] = "co_lookup" /\ udid'[p] = u /\ NoEffect
    /\ pc[p] = "co_lookup" /\ udid[p] = u /\ Moved(p)
         => pc'[p] = "co_store" /\ udid'[p] = u /\ NoEffect
    /\ pc[p] = "co_store" /\ udid[p] = u /\ Moved(p)
         => pc'[p] = "idle" /\ Registered(Devices', u, FALSE) /\ commands' = commands

\* C3: a CheckOut event with a checkin payload for u leaves a record for u
\* with enrolled = false from any prior state of u, creating the record if
\* it is absent, and no step of the handler posts a command.
C3_CheckOutUnenrolls == [][C3_Steps]_vars

\* A device that a TokenUpdate had enrolled has been checked out.
C3_Witness ==
  /\ out.step = "co_store"
  /\ Len(commands) = 1
  /\ Registered(Devices, commands[1].udid, FALSE)

C4_Step ==
  Decoded(out') /\ LacksRequiredPayload(EventOf(out'))
    => out'.status = 400 /\ NoEffect /\ pc' = pc

\* C4: an event without the payload its topic requires is answered 400 by
\* the step that receives it; the registry and the commands stay as they
\* were and no handler step follows.
C4_MissingPayloadRejected == [][C4_Step]_vars

\* A TokenUpdate that carries only an acknowledge payload was rejected
\* while the registry held a record.
C4_Witness ==
  /\ Decoded(out)
  /\ EventOf(out).Topic = TokenUpdateTopic
  /\ EventOf(out).CheckinEvent = Nil /\ EventOf(out).AcknowledgeEvent # Nil
  /\ out.status = 400
  /\ DOMAIN Devices # {}

\* The commands posted for u.
CommandsTo(u) == {i \in DOMAIN commands : commands[i].udid = u}

\* The TokenUpdate handlers for u that have not posted their command yet.
PendingTokenUpdates(u) == {p \in Procs : pc[p] \in {"tu_lookup", "tu_store", "tu_send"} /\ udid[p] = u}

\* C5: for every identifier the commands posted for it and the TokenUpdate
\* handlers still on their way to the post add up to the TokenUpdate events
\* with a checkin payload received for it: no other event posts a command,
\* a repeated TokenUpdate posts again, and nothing is posted for an
\* identifier before its first TokenUpdate.  Every command is an
\* "InstalledApplicationList".
C5_OneCommandPerTokenUpdate ==
  /\ \A u \in UDIDs : Cardinality(CommandsTo(u)) + Cardinality(PendingTokenUpdates(u)) = tokenUpdates[u]
  /\ \A i \in DOMAIN commands : commands[i].udid \in UDIDs /\ commands[i].request_type = "InstalledApplicationList"

\* Two TokenUpdates for one device have both posted their command.
C5_Witness ==
  /\ Quiescent
  /\ \E u \in UDIDs : tokenUpdates[u] = 2 /\ Cardinality(CommandsTo(u)) = 2

\* The handlers for u that have not written the registry yet.
PendingStores(u) ==
  {p \in Procs : pc[p] \in {"auth_lookup", "auth_store", "tu_lookup", "tu_store", "co_lookup", "co_store"} /\ udid[p] = u}

\* C6 as claimed: once every received request is answered, the registry
\* holds a record for exactly the identifiers that the handlers were given,
\* in the checkin payload of an Authenticate, TokenUpdate or CheckOut event
\* or in the acknowledge payload of a Connect event.
C6_RecordIffReferenced == Quiescent => DOMAIN Devices = referenced

\* C6, amended: a record exists for exactly the identifiers that an
\* Authenticate, TokenUpdate or CheckOut event carried in its checkin
\* payload, from the handler's write on; an identifier carried only by the
\* acknowledge payload of a Connect event has no record.
C6_RecordIffCheckedIn ==
  \A u \in UDIDs :
    /\ u \in DOMAIN Devices => u \in checkedIn
    /\ u \in checkedIn /\ u \notin DOMAIN Devices => PendingStores(u) # {}

\* A Connect event carried an identifier that has no record, while the
\* other identifier has one.
C6_Witness ==
  /\ Quiescent
  /\ Decoded(out) /\ EventOf(out).Topic = ConnectTopic /\ EventOf(out).AcknowledgeEvent # Nil
  /\ EventOf(out).AcknowledgeEvent[1].UDID \notin DOMAIN Devices
  /\ DOMAIN Devices = checkedIn /\ checkedIn # {}

\* C7 as claimed: after a delivery that failed, in the transport or with
\* the server refusing the credentials, the process is no longer running.
C7_DeliveryFailureIsFatal == delivery \in {"unauthorized", "transport_error"} => ~alive

C8_Step ==
  Decoded(out') /\ EventOf(out').Topic \notin {AuthenticateTopic, TokenUpdateTopic, ConnectTopic, CheckoutTopic}
    => /\ NoEffect
       /\ pc' = pc
       /\ out'.status = 200
       /\ out'.log = << <<"warning", EventOf(out').Topic>> >>

\* C8: an event of a topic that is none of the four is answered by the step
\* that receives it, without an error status; no handler step follows, the
\* registry and the commands stay as they were, and the only line logged is
\* the warning, whatever payloads the event carries.
C8_UnknownTopicIgnored == [][C8_Step]_vars

\* An event of another topic that carries both payloads was received while
\* the registry held a record.
C8_Witness ==
  /\ Decoded(out) /\ EventOf(out).Topic = OtherTopic
  /\ EventOf(out).CheckinEvent # Nil /\ EventOf(out).AcknowledgeEvent # Nil
  /\ out.status = 200
  /\ DOMAIN Devices # {}

C9_Step ==
  Decoded(out') /\ EventOf(out').Topic = ConnectTopic => NoEffect /\ pc' = pc

\* C9: a Connect event, with or without its acknowledge payload and
\* whatever the raw payload holds, is over with the step that receives it:
\* the registry and the commands stay as they were and no handler step
\* follows, so no record appears for the identifier the payload carries.
C9_ConnectLeavesRegistry == [][C9_Step]_vars

\* A Connect event whose payload holds the marker was answered for an
\* identifier that has no record.
C9_Witness ==
  /\ Decoded(out) /\ EventOf(out).Topic = ConnectTopic /\ EventOf(out).AcknowledgeEvent # Nil
  /\ EventOf(out).AcknowledgeEvent[1].RawPayload = Marker
  /\ EventOf(out).AcknowledgeEvent[1].UDID \notin DOMAIN Devices
  /\ out.status = 200

\* The payload is some text, the marker, some text.
HasMarker(xml) == \E pre \in Blobs, post \in Blobs : xml = pre \o Marker \o post

\* C10: the step that receives a Connect event with an acknowledge payload
\* logs its Infof line and, when the raw payload holds the marker, one more
\* line that is the payload verbatim; when it does not, the Infof line is
\* all that is logged.
C10_ConnectLogsInventory ==
  Decoded(out) /\ EventOf(out).Topic = ConnectTopic /\ EventOf(out).AcknowledgeEvent # Nil
    => LET xml == EventOf(out).AcknowledgeEvent[1].RawPayload
       IN  out.log = IF HasMarker(xml)
                     THEN << <<"info", "handleConnect">>, <<"println">> \o xml >>
                     ELSE << <<"info", "handleConnect">> >>

\* A payload that holds the marker after other text was logged.
C10_Witness ==
  /\ Decoded(out) /\ EventOf(out).Topic = ConnectTopic /\ EventOf(out).AcknowledgeEvent # Nil
  /\ LET xml == EventOf(out).AcknowledgeEvent[1].RawPayload
     IN  /\ Len(xml) = 3 /\ SubSeq(xml, 2, 3) = Marker
         /\ out.log[2] = <<"println">> \o xml

C11_Step ==
  \A p \in Procs, q \in Procs :
    p # q /\ pc[p] \in MapWrites /\ pc[q] \in MapReads \cup MapWrites /\ udid[q] = udid[p]
      => ~Moved(q)

\* C11 as claimed: while a handler is between its lookup of an identifier's
\* record and its write-back, no other handler reads or writes the registry
\* for the same identifier.
C11_ReadModifyWriteAtomic == [][C11_Step]_vars

C12_Step ==
  out'.step = "handleWebhook" /\ out'.request # Nil /\ out'.request[1].malformed
    => out'.status = 400 /\ NoEffect /\ pc' = pc

\* C12: a body that does not decode is answered 400 by the step that
\* receives it; no handler step follows and the registry and the commands
\* stay as they were.
C12_MalformedBodyRejected == [][C12_Step]_vars

\* A body that does not decode was rejected while the registry held a record.
C12_Witness ==
  /\ out.step = "handleWebhook" /\ out.request # Nil /\ out.request[1].malformed
  /\ out.status = 400
  /\ DOMAIN Devices # {}

\* What handling the received checkin events one after another leaves for
\* u when at most one of them carries u: no record and no command without
\* an event, else the record its handler writes and the command it posts.
SequentialOutcome(u) ==
  IF checkins[u] = 0
  THEN u \notin DOMAIN Devices /\ CommandsTo(u) = {}
  ELSE /\ Registered(Devices, u, lastTopic[u] = TokenUpdateTopic)
       /\ Cardinality(CommandsTo(u)) = (IF lastTopic[u] = TokenUpdateTopic THEN 1 ELSE 0)

\* C13 as claimed: when the received events carry pairwise distinct
\* identifiers and no delivery failed, then once nothing runs any more the
\* registry and the commands are those of handling the events one after
\* another, however the handlers' steps were interleaved.
C13_DistinctIdentifiersCommute ==
  ((Quiescent \/ ~alive) /\ delivery # "transport_error" /\ (\A u \in UDIDs : checkins[u] <= 1))
    => \A u \in UDIDs : SequentialOutcome(u)

\* C14: with the requests handled one at a time, whenever no request is in
\* flight an identifier's record has enrolled = true exactly when the last
\* Authenticate, TokenUpdate or CheckOut event with a checkin payload for
\* it was a TokenUpdate; events of other kinds and rejected events, which
\* are not among those, leave the flag as it was.
C14_EnrolledIffLastWasTokenUpdate ==
  Quiescent =>
    \A u \in UDIDs :
      (u \in DOMAIN Devices /\ Devices[u].Enrolled) <=> lastTopic[u] = TokenUpdateTopic

\* A device was enrolled by a TokenUpdate and then checked out.
C14_Witness ==
  /\ Quiescent
  /\ \E u \in UDIDs : tokenUpdates[u] = 1 /\ lastTopic[u] = CheckoutTopic /\ Registered(Devices, u, FALSE)

\* C15: no step removes a record: the identifiers that have a record before
\* a step have one after it.
C15_RecordsNeverRemoved == [][DOMAIN Devices \subseteq DOMAIN Devices']_vars

\* A device was checked out while both identifiers have a record.
C15_Witness ==
  /\ out.step = "co_store"
  /\ DOMAIN Devices = UDIDs

\* C16 as claimed: at most one Authenticate event per identifier is
\* reported as enrolling a new device.
C16_OneNewReportPerIdentifier == \A u \in UDIDs : newReports[u] <= 1

C17_Step ==
  \A p \in Procs : pc[p] = "tu_send" /\ Moved(p) => Registered(Devices, udid[p], TRUE)

\* C17 as claimed: when a command for an identifier is dispatched, the
\* registry holds that identifier's record with enrolled = true.
C17_EnrolledAtDispatch == [][C17_Step]_vars

\* C17, amended: a handler that is about to dispatch a command for an
\* identifier has written that identifier's record with enrolled = true;
\* the record is still there, and it still has enrolled = true unless
\* another handler has written it since.
C17_OwnWriteBeforeDispatch ==
  \A p \in Procs :
    pc[p] = "tu_send" =>
      /\ d[p] = [UDID |-> udid[p], Enrolled |-> TRUE]
      /\ udid[p] \in DOMAIN Devices
      /\ (lastWriter[udid[p]] = p => Registered(Devices, udid[p], TRUE))

\* A handler is about to dispatch a command for a device that another
\* handler has unenrolled since its write.
C17_Witness ==
  \E p \in Procs :
    /\ alive
    /\ pc[p] = "tu_send"
    /\ Registered(Devices, udid[p], FALSE)

\* The step taken is a write of u's record by a handler.
WritesRecordOf(u) == \E p \in Procs : pc[p] \in MapWrites /\ udid[p] = u /\ Moved(p)

C18_Step ==
  /\ config' = config
  /\ \A u \in UDIDs :
       \/ WritesRecordOf(u)
       \/ /\ MapGet(Devices', u) = MapGet(Devices, u)
          /\ u \in DOMAIN Devices' <=> u \in DOMAIN Devices

\* C18: a step changes the record of an identifier, its presence or its
\* flag, only if it is the write of a handler whose event carries that
\* identifier; the records of all other identifiers and the server's URL
\* and API key stay as they were.
C18_OtherRecordsUntouched == [][C18_Step]_vars

\* A handler wrote the record of one identifier while the other identifier
\* had a record with enrolled = true.
C18_Witness ==
  \E u \in UDIDs, v \in UDIDs :
    /\ u # v
    /\ out.step \in MapWrites
    /\ lastWriter[u] = out.proc
    /\ Registered(Devices, u, FALSE)
    /\ Registered(Devices, v, TRUE)

C19_Step ==
  /\ \A k \in DOMAIN Devices' : Devices'[k].UDID = k
  /\ \A p \in Procs :
       pc[p] = "tu_send" /\ Moved(p)
         => Len(commands') = Len(commands) + 1 /\ commands'[Len(commands')].udid = udid[p]

\* C19: every record is stored under its own UDID, and the command a
\* TokenUpdate handler posts carries the identifier of its event.
C19_KeysMatchRecords == [][C19_Step]_vars

\* A command was posted for one device while both identifiers have a record.
C19_Witness ==
  /\ out.step = "tu_send"
  /\ Len(commands) = 1
  /\ DOMAIN Devices = UDIDs

====
